---- MODULE Spec2Model ----
(***************************************************************************)
(* A model of market_state.py: the fallback-chained fetch routine          *)
(* (_fetch_with_fallback), the column-name-tolerant summaries              *)
(* (_summarize_spot, _summarize_industry_board) and the dispatch           *)
(* (get_market_state).                                                     *)
(*                                                                         *)
(* Conventions.  Python values are tagged records ([k |-> "int", ...]).    *)
(* A Python string built by an f-string or a join is a sequence of its     *)
(* pieces, so that concatenation is \o and "starts with" is a prefix       *)
(* test.  A float is kept as an integer number of hundredths (x100).       *)
(* Column names that are Chinese in the source are written in pinyin:      *)
(* daima, mingcheng, zhangdiefu, zuixinjia, chengjiaoe, ...                *)
(***************************************************************************)
EXTENDS Integers, Sequences, FiniteSets, TLC

\* ------------------------------------------------------------ bounds
MaxFetchers == 3
MaxRows == 2
MaxTopN == 2

\* ------------------------------------------------------------ variables
VARIABLES
    pc,        \* where get_market_state / _fetch_with_fallback stands
    scope,     \* argument scope of get_market_state
    params,    \* argument params of get_market_state (as passed)
    locals,    \* top_n, raw, raw_rows after lines 243-245
    meta,      \* the meta envelope (lines 247-253, 258-260, 274-276)
    report,    \* the value get_market_state returned
    exc,       \* the exception that left get_market_state / _fetch_with_fallback
    fetchers,  \* argument of _fetch_with_fallback
    idx,       \* position of the for loop of line 66 (1-based)
    errors,    \* local errors of _fetch_with_fallback
    fret,      \* the value _fetch_with_fallback returned
    callLog,   \* every call made to the data provider, in order
    sdf,       \* argument df of _summarize_spot
    stop_n,    \* argument top_n of _summarize_spot
    sresult    \* the value _summarize_spot returned

vars == <<pc, scope, params, locals, meta, report, exc, fetchers, idx, errors,
          fret, callLog, sdf, stop_n, sresult>>

gmsVars == <<scope, params, locals, meta, report>>
sumVars == <<sdf, stop_n, sresult>>

\* ------------------------------------------------------------ Python values
NoneV == [k |-> "None"]
IntV(n) == [k |-> "int", v |-> n]
StrV(s) == [k |-> "str", s |-> s]
BoolV(b) == [k |-> "bool", b |-> b]
DictV(d) == [k |-> "dict", d |-> d]
\* a float, in hundredths
FloatV(h) == [k |-> "float", x100 |-> h]
\* the float NaN (a missing cell of a table)
NaNV == [k |-> "nan"]
\* no value yet (a variable of the model that the program has not assigned)
Unset == [k |-> "unset"]

\* The decimal literals that occur in the inputs, with their values: what
\* int(), float() and pandas.to_numeric parse a string to.
NumericLiterals == {<<"2", 2>>, <<"5", 5>>, <<"7", 7>>, <<"10", 10>>}

IsNumericLiteral(s) == \E p \in NumericLiterals : p[1] = s

LiteralValue(s) == (CHOOSE p \in NumericLiterals : p[1] = s)[2]

\* An exception object: its type name and str(e), the latter in pieces.
Exception(type, msg) == [k |-> "exception", type |-> type, msg |-> msg]

\* PyInt with a slip: a string int() cannot parse counts as 0 instead of
\* raising ValueError.
PyInt_lenient(x) ==
    CASE x.k = "int" -> [ok |-> TRUE, v |-> x.v]
      [] x.k = "bool" -> [ok |-> TRUE, v |-> IF x.b THEN 1 ELSE 0]
      [] x.k = "str" ->
            [ok |-> TRUE, v |-> IF IsNumericLiteral(x.s) THEN LiteralValue(x.s) ELSE 0]
      [] OTHER -> [ok |-> FALSE,
                   e |-> Exception("TypeError", <<"int() argument must be a number, not ", x.k>>)]

\* int(x) of lines 243 and 245: the integer, or the exception int() raises.
PyInt(x) ==
    CASE x.k = "int" -> [ok |-> TRUE, v |-> x.v]
      [] x.k = "bool" -> [ok |-> TRUE, v |-> IF x.b THEN 1 ELSE 0]
      [] x.k = "str" ->
            IF IsNumericLiteral(x.s)
            THEN [ok |-> TRUE, v |-> LiteralValue(x.s)]
            ELSE [ok |-> FALSE,
                  e |-> Exception("ValueError",
                          <<"invalid literal for int() with base 10: ", x.s>>)]
      [] OTHER -> [ok |-> FALSE,
                   e |-> Exception("TypeError",
                          <<"int() argument must be a string, a bytes-like object or a real number, not ", x.k>>)]

\* bool(x) of line 244, and the truth test of "params or {}" (line 242).
PyBool(x) ==
    CASE x.k = "None" -> FALSE
      [] x.k = "bool" -> x.b
      [] x.k = "int" -> x.v # 0
      [] x.k = "str" -> x.s # ""
      [] x.k = "dict" -> DOMAIN x.d # {}
      [] OTHER -> TRUE

\* d.get(key, default) on a dict value.
DictGet(d, key, default) == IF key \in DOMAIN d.d THEN d.d[key] ELSE default

\* str(x) for the values a date parameter takes (line 304).
PyStr(x) ==
    CASE x.k = "str" -> x.s
      [] x.k = "None" -> "None"
      [] OTHER -> "?"

\* s.strip() (line 304) on the strings the date parameter takes.
Strip(s) ==
    CASE s = " " -> ""
      [] s = " 20200619 " -> "20200619"
      [] OTHER -> s

\* ------------------------------------------------------------ tables
\* A pandas DataFrame: its column names in order and its rows, each row a
\* function from the column names to cells.
DataFrame(columns, rows) == [k |-> "DataFrame", columns |-> columns, rows |-> rows]

Range(s) == {s[i] : i \in DOMAIN s}

\* IsNonEmptyFrame with a slip: the len(df) > 0 test is forgotten.
IsNonEmptyFrame_any_frame(df) == df.k = "DataFrame"

\* isinstance(df, pd.DataFrame) and len(df) > 0 (line 69)
IsNonEmptyFrame(df) == df.k = "DataFrame" /\ Len(df.rows) > 0

\* isinstance(df, pd.DataFrame) (lines 291, 308)
IsFrame(df) == df.k = "DataFrame"

\* df.head(n): the first n rows, all but the last -n rows when n < 0.
DfHead(rows, n) ==
    LET m == IF n >= 0 THEN n ELSE Len(rows) + n
        c == IF m < 0 THEN 0 ELSE IF m > Len(rows) THEN Len(rows) ELSE m
    IN  SubSeq(rows, 1, c)

\* ------------------------------------------------------------ utils
\* _safe_float (lines 31-41): None for None, NaN and anything float() rejects.
safe_float(x) ==
    CASE x.k = "None" -> NoneV
      [] x.k = "nan" -> NoneV
      [] x.k = "float" -> x
      [] x.k = "int" -> FloatV(100 * x.v)
      [] x.k = "str" ->
            IF IsNumericLiteral(x.s) THEN FloatV(100 * LiteralValue(x.s)) ELSE NoneV
      [] OTHER -> NoneV

\* to_numeric with a slip: what is not a number becomes 0 instead of NaN.
to_numeric_fill_zero(x) ==
    CASE x.k = "float" -> x
      [] x.k = "int" -> FloatV(100 * x.v)
      [] x.k = "str" ->
            IF IsNumericLiteral(x.s) THEN FloatV(100 * LiteralValue(x.s)) ELSE FloatV(0)
      [] OTHER -> FloatV(0)

\* pd.to_numeric(cell, errors="coerce") (lines 99, 124, 177): what is not a
\* number becomes NaN.
to_numeric(x) ==
    CASE x.k = "float" -> x
      [] x.k = "int" -> FloatV(100 * x.v)
      [] x.k = "str" ->
            IF IsNumericLiteral(x.s) THEN FloatV(100 * LiteralValue(x.s)) ELSE NaNV
      [] OTHER -> NaNV

IsNum(x) == x.k = "float"

\* _pick_col (lines 44-48): the loop over candidates from position i.
RECURSIVE pick_col_from(_, _, _)
pick_col_from(df, candidates, i) ==
    IF i > Len(candidates) THEN NoneV
    ELSE IF candidates[i] \in Range(df.columns) THEN StrV(candidates[i])
    ELSE pick_col_from(df, candidates, i + 1)

\* pick_col with a slip: the columns of the table are searched in their own
\* order for a candidate, so the table's order decides instead of the list's.
pick_col_table_order(df, candidates) ==
    IF Range(candidates) \cap Range(df.columns) = {} THEN NoneV
    ELSE LET i == CHOOSE i \in DOMAIN df.columns :
                     /\ df.columns[i] \in Range(candidates)
                     /\ \A j \in 1..(i - 1) : df.columns[j] \notin Range(candidates)
         IN  StrV(df.columns[i])

pick_col(df, candidates) == pick_col_from(df, candidates, 1)

\* The candidate lists of lines 86-90.
CodeCandidates == <<"daima", "gupiao_daima", "symbol", "code">>
NameCandidates == <<"mingcheng", "gupiao_jiancheng", "name">>
PctCandidates == <<"zhangdiefu", "zhangdiefu%", "zhangdiefu(%)", "changepercent",
                   "pct_chg", "zhangdiefu(%)">>
PriceCandidates == <<"zuixinjia", "xianjia", "price", "trade", "zuixin">>
AmountCandidates == <<"chengjiaoe", "amount", "chengjiaoe(yuan)", "turnover",
                      "chengjiaoe(yuan-fullwidth)", "chengjiaoe(wan)">>

\* The column col of the table after pd.to_numeric (lines 99, 124).
NumericColumn(df, col) == [i \in 1..Len(df.rows) |-> to_numeric(df.rows[i][col])]

\* The comparison of a number (in hundredths) with a bound, as the source
\* writes it: > 0, < 0, == 0, >= 9.5, <= -9.5.
Compare(h, op, bound) ==
    CASE op = ">" -> h > bound
      [] op = "<" -> h < bound
      [] op = "==" -> h = bound
      [] op = ">=" -> h >= bound
      [] op = "<=" -> h <= bound

\* int((series op bound).sum()) (lines 102-104, 116-117): the number of
\* cells that are numbers and satisfy the comparison; NaN satisfies none.
CountWhere(series, op, bound) ==
    Cardinality({i \in DOMAIN series :
                    IsNum(series[i]) /\ Compare(series[i].x100, op, bound)})

\* series.dropna() (lines 108, 125): the numbers, in row order, in hundredths.
RECURSIVE dropna_from(_, _)
dropna_from(series, i) ==
    IF i > Len(series) THEN <<>>
    ELSE (IF IsNum(series[i]) THEN <<series[i].x100>> ELSE <<>>)
         \o dropna_from(series, i + 1)

dropna(series) == dropna_from(series, 1)

\* The sequence s without its element at position i.
RemoveAt(s, i) == SubSeq(s, 1, i - 1) \o SubSeq(s, i + 1, Len(s))

\* The numbers of s in ascending order (the order Series.quantile works on).
RECURSIVE SortAsc(_)
SortAsc(s) ==
    IF s = <<>> THEN <<>>
    ELSE LET i == CHOOSE i \in DOMAIN s : \A j \in DOMAIN s : s[i] <= s[j]
         IN  <<s[i]>> \o SortAsc(RemoveAt(s, i))

\* Series.quantile(p) with pandas' linear interpolation, p in percent:
\* position (n-1)*p between the two neighbouring order statistics.
Quantile(v, p) ==
    LET s == SortAsc(v)
        pos == (Len(s) - 1) * p
        lo == pos \div 100
        fr == pos % 100
    IN  IF fr = 0 THEN s[lo + 1]
        ELSE s[lo + 1] + (fr * (s[lo + 2] - s[lo + 1])) \div 100

\* q of lines 110-111
q(v, p) == IF Len(v) > 0 THEN safe_float(FloatV(Quantile(v, p))) ELSE NoneV

\* sort_values with a slip: the order asked for is reversed.
sort_values_flipped(series, ascending) ==
    LET n == Len(series)
        InOrder(a, b) ==
            \/ ~IsNum(b)
            \/ IsNum(a) /\ IsNum(b)
               /\ (IF ascending THEN a.x100 >= b.x100 ELSE a.x100 <= b.x100)
    IN  {p \in [1..n -> 1..n] :
            /\ \A i, j \in 1..n : i # j => p[i] # p[j]
            /\ \A i, j \in 1..n : i < j => InOrder(series[p[i]], series[p[j]])}

\* The row orders x.sort_values(col, ascending=...) may produce (lines 135,
\* 179, 180): numbers in the asked order, NaN last; the default sort is not
\* stable, so rows with equal keys come in any order.
sort_values(series, ascending) ==
    LET n == Len(series)
        InOrder(a, b) ==
            \/ ~IsNum(b)
            \/ IsNum(a) /\ IsNum(b)
               /\ (IF ascending THEN a.x100 <= b.x100 ELSE a.x100 >= b.x100)
    IN  {p \in [1..n -> 1..n] :
            /\ \A i, j \in 1..n : i # j => p[i] # p[j]
            /\ \A i, j \in 1..n : i < j => InOrder(series[p[i]], series[p[j]])}

\* A Python list and a Python dict with string keys, as values.
ListV(items) == [k |-> "list", items |-> items]

\* One record of top_df.to_dict(orient="records") (lines 129-154) for a row:
\* the chosen columns under their new names, the numeric ones through
\* _safe_float.
TopEntry(row, pctv, amtv, code_col, name_col, price_col) ==
    LET base == [code |-> row[code_col.s], name |-> row[name_col.s],
                 pct_chg |-> safe_float(pctv), amount |-> safe_float(amtv)]
    IN  IF PyBool(price_col)
        THEN base @@ [last |-> safe_float(row[price_col.s])]
        ELSE base

\* _summarize_spot (lines 78-163): the set of values it may return (one per
\* row order the sort may produce).
summarize_spot(df, top_n) ==
    LET code_col == pick_col(df, CodeCandidates)
        name_col == pick_col(df, NameCandidates)
        pct_col == pick_col(df, PctCandidates)
        price_col == pick_col(df, PriceCandidates)
        amount_col == pick_col(df, AmountCandidates)
    IN  IF ~PyBool(code_col) \/ ~PyBool(name_col) \/ ~PyBool(pct_col)
        THEN {[error |-> "spot missing key columns", available_cols |-> df.columns]}
        ELSE
        LET xpct == NumericColumn(df, pct_col.s)
            breadth == [advance |-> CountWhere(xpct, ">", 0),
                        decline |-> CountWhere(xpct, "<", 0),
                        flat |-> CountWhere(xpct, "==", 0),
                        total |-> Len(df.rows)]
            pct == dropna(xpct)
            pct_quantiles == [p10 |-> q(pct, 10), p50 |-> q(pct, 50), p90 |-> q(pct, 90)]
            limit_up_like == CountWhere(xpct, ">=", 950)
            limit_down_like == CountWhere(xpct, "<=", -950)
            Result(tq, tt) ==
                [breadth |-> breadth, pct_chg_quantiles |-> pct_quantiles,
                 turnover_quantiles |-> tq, limit_up_like |-> limit_up_like,
                 limit_down_like |-> limit_down_like, top_turnover |-> tt]
        IN  IF ~PyBool(amount_col) THEN {Result(NoneV, NoneV)}
            ELSE
            LET xamt == NumericColumn(df, amount_col.s)
                amt == dropna(xamt)
            IN  IF Len(amt) = 0 THEN {Result(NoneV, NoneV)}
                ELSE
                LET tq == [k |-> "dict", p50 |-> q(amt, 50), p90 |-> q(amt, 90),
                           p99 |-> q(amt, 99)]
                    Top(p) ==
                        LET order == DfHead(p, top_n)
                        IN  [i \in 1..Len(order) |->
                               TopEntry(df.rows[order[i]], xpct[order[i]],
                                        xamt[order[i]], code_col, name_col, price_col)]
                IN  {Result(tq, ListV(Top(p))) : p \in sort_values(xamt, FALSE)}

\* ------------------------------------------------------------ _summarize_spot on bounded tables
\* The column layouts of the tables _summarize_spot is applied to: the
\* provider's schemas differ by source and version.
Schemas ==
    { <<"daima", "mingcheng", "zuixinjia", "zhangdiefu", "chengjiaoe">>,
      <<"code", "symbol", "name", "mingcheng", "changepercent", "amount">>,
      <<"daima", "mingcheng", "zhangdiefu">>,
      <<"daima", "mingcheng", "chengjiaoe">>,
      <<"mingcheng", "zhangdiefu">>,
      <<"daima", "zhangdiefu">>,
      <<"kaipan">> }

\* The codes of the instruments of a snapshot, one per row.
RowCodes == <<"600000", "600001", "600002", "600003", "600004", "600005">>

PctCells == {FloatV(-1000), FloatV(0), StrV("10"), NaNV, StrV("--")}
AmtCells == {FloatV(500), StrV("7"), NaNV, StrV("--")}

\* Row i of a table with the given columns: its percent-change cell and its
\* turnover cell as given, its code the i-th code, its price and its other
\* columns fixed.
SpotRow(columns, i, pctCell, amtCell) ==
    [c \in Range(columns) |->
        IF c \in Range(PctCandidates) THEN pctCell
        ELSE IF c \in Range(AmountCandidates) THEN amtCell
        ELSE IF c \in Range(CodeCandidates) THEN StrV(RowCodes[i])
        ELSE IF c \in Range(PriceCandidates) THEN FloatV(1200)
        ELSE StrV("x")]

\* The table with the given columns whose row i holds the cells cells[i].
SpotTable(columns, cells) ==
    DataFrame(columns,
              [i \in 1..Len(cells) |-> SpotRow(columns, i, cells[i][1], cells[i][2])])

\* The cells that tell two tables with the given columns apart.
CellChoices(columns) ==
    (IF Range(columns) \cap Range(PctCandidates) # {} THEN PctCells ELSE {NaNV})
    \X (IF Range(columns) \cap Range(AmountCandidates) # {} THEN AmtCells ELSE {NaNV})

InitSummarize ==
    /\ pc = "summarize"
    /\ \E columns \in Schemas, n \in 0..MaxRows :
          \E cells \in [1..n -> CellChoices(columns)] :
             sdf = SpotTable(columns, cells)
    /\ stop_n \in (-1)..MaxTopN
    /\ sresult = Unset
    /\ scope = "" /\ params = NoneV /\ locals = Unset /\ meta = Unset
    /\ report = Unset /\ exc = Unset
    /\ fetchers = <<>> /\ idx = 1 /\ errors = <<>> /\ fret = Unset /\ callLog = <<>>

\* One call _summarize_spot(sdf, stop_n).
SummarizeSpot ==
    /\ pc = "summarize"
    /\ \E r \in summarize_spot(sdf, stop_n) : sresult' = r
    /\ pc' = "summarized"
    /\ UNCHANGED <<scope, params, locals, meta, report, exc, fetchers, idx, errors,
                   fret, callLog, sdf, stop_n>>

NextSummarize == SummarizeSpot

SpecSummarize == InitSummarize /\ [][NextSummarize]_vars

\* ------------------------------------------------------------ _summarize_industry_board
BoardCandidates == <<"bankuai_mingcheng", "hangye_mingcheng", "mingcheng", "board">>
BoardPctCandidates == <<"zhangdiefu", "zhangdiefu%", "zhangdiefu(%)", "pct_chg">>

\* The optional columns of lines 183-186 with their new names (lines 192-195).
BoardExtras ==
    <<<<"shangzhang_jiashu", "adv">>, <<"xiadie_jiashu", "dec">>,
      <<"lingzhang_gupiao", "leader">>, <<"lingzhang_gupiao-zhangdiefu", "leader_pct_chg">>>>

\* pack of lines 188-200, for one row.
BoardEntry(df, row, pctv, board_col) ==
    LET have == {i \in DOMAIN BoardExtras : BoardExtras[i][1] \in Range(df.columns)}
        outs == {"board", "pct_chg"} \cup {BoardExtras[i][2] : i \in have}
        Src(o) == BoardExtras[CHOOSE i \in have : BoardExtras[i][2] = o][1]
    IN  [o \in outs |->
            IF o = "board" THEN row[board_col.s]
            ELSE IF o = "pct_chg" THEN safe_float(pctv)
            ELSE IF o = "leader" THEN row[Src(o)]
            ELSE safe_float(row[Src(o)])]

\* _summarize_industry_board (lines 166-202): the set of values it may return.
summarize_industry_board(df, top_n) ==
    LET board_col == pick_col(df, BoardCandidates)
        pct_col == pick_col(df, BoardPctCandidates)
    IN  IF ~PyBool(board_col) \/ ~PyBool(pct_col)
        THEN {[error |-> "industry board missing key columns",
               available_cols |-> df.columns]}
        ELSE
        LET xpct == NumericColumn(df, pct_col.s)
            Pack(p) ==
                LET order == DfHead(p, top_n)
                IN  ListV([i \in 1..Len(order) |->
                             BoardEntry(df, df.rows[order[i]], xpct[order[i]], board_col)])
        IN  {[top_gainers |-> Pack(up), top_losers |-> Pack(dn)] :
                up \in sort_values(xpct, FALSE), dn \in sort_values(xpct, TRUE)}

\* ------------------------------------------------------------ the data provider
\* What one call of a provider function may do (_call_if_exists, lines 51-57):
\* raise (AttributeError when this version of the library lacks the function,
\* any other exception from the network), or return a value: a table, an
\* empty table, or something that is no table.
FrameEM ==
    SpotTable(<<"daima", "mingcheng", "zuixinjia", "zhangdiefu", "chengjiaoe">>,
              << <<FloatV(-1000), FloatV(500)>>, <<StrV("10"), FloatV(500)>>,
                 <<FloatV(0), NaNV>> >>)

FrameOdd == SpotTable(<<"kaipan", "shoupan">>, << <<NaNV, NaNV>> >>)

FrameBoard ==
    SpotTable(<<"bankuai_mingcheng", "zhangdiefu", "shangzhang_jiashu", "lingzhang_gupiao">>,
              << <<FloatV(0), NaNV>>, <<StrV("2"), NaNV>> >>)

EmptyFrame == DataFrame(<<"daima", "mingcheng">>, <<>>)

Raises(e) == [k |-> "raise", e |-> e]
Returns(v) == [k |-> "return", v |-> v]

call_if_exists(func_name) ==
    {Raises(Exception("AttributeError",
                      <<"module 'akshare' has no attribute '", func_name, "'">>)),
     Raises(Exception("RuntimeError", <<"Connection aborted.">>))}
    \cup {Returns(v) : v \in {FrameEM, FrameOdd, FrameBoard, EmptyFrame, NoneV}}

\* ------------------------------------------------------------ _fetch_with_fallback
\* A fetcher of the list: its name and the provider function its lambda calls.
Fetcher(name, func) == [name |-> name, func |-> func]

\* The line appended to errors for a fetcher that returned no usable table
\* (line 71) and for one that raised (line 73).
EmptyError(name) == <<"[", name, "] ", "Empty dataframe">>
RaisedError(name, e) == <<"[", name, "] ", e.type, ": ">> \o e.msg

\* "\n".join(lines), in pieces
RECURSIVE JoinLines(_)
JoinLines(lines) ==
    IF lines = <<>> THEN <<>>
    ELSE IF Len(lines) = 1 THEN lines[1]
    ELSE lines[1] \o <<"\n">> \o JoinLines(Tail(lines))

\* AllFailed with a slip: only the last error line makes it into the message.
AllFailed_last_only(errs) ==
    Exception("RuntimeError",
              <<"All data sources failed:\n">>
              \o (IF errs = <<>> THEN <<>> ELSE errs[Len(errs)]))

\* The exception of line 74.
AllFailed(errs) ==
    Exception("RuntimeError", <<"All data sources failed:\n">> \o JoinLines(errs))

\* Whether the outcome of a fetcher ends the loop with a return (line 69-70).
Succeeds(out) == out.k = "return" /\ IsNonEmptyFrame(out.v)

\* ErrorsAfter with a slip: an empty or non-table result is skipped without
\* a line in errors.
ErrorsAfter_raised_only(errs, name, out) ==
    IF out.k = "return" THEN errs ELSE Append(errs, RaisedError(name, out.e))

\* errors after the loop body ran on a fetcher with this outcome (lines 67-73).
ErrorsAfter(errs, name, out) ==
    IF Succeeds(out) THEN errs
    ELSE IF out.k = "return" THEN Append(errs, EmptyError(name))
    ELSE Append(errs, RaisedError(name, out.e))

\* One iteration of the loop of lines 66-73 on fetchers[idx], the call f()
\* ending in out: the call is made, then either the function returns
\* (df, errors) or the error is recorded and the loop moves on.
FetchIteration(out) ==
    /\ callLog' = Append(callLog, [pos |-> idx, name |-> fetchers[idx].name,
                                   func |-> fetchers[idx].func, out |-> out])
    /\ errors' = ErrorsAfter(errors, fetchers[idx].name, out)
    /\ idx' = IF Succeeds(out) THEN idx ELSE idx + 1
    /\ fret' = IF Succeeds(out) THEN [df |-> out.v, errors |-> errors] ELSE fret

\* _fetch_with_fallback called on its own, on any list of fetchers.
FetcherPool ==
    {Fetcher("eastmoney_spot_em", "stock_zh_a_spot_em"),
     Fetcher("sina_spot", "stock_zh_a_spot")}

InitFallback ==
    /\ pc = "fetching"
    /\ \E n \in 0..MaxFetchers : fetchers \in [1..n -> FetcherPool]
    /\ idx = 1 /\ errors = <<>> /\ fret = Unset /\ callLog = <<>> /\ exc = Unset
    /\ scope = "" /\ params = NoneV /\ locals = Unset /\ meta = Unset
    /\ report = Unset
    /\ sdf = Unset /\ stop_n = 0 /\ sresult = Unset

FetchStep ==
    /\ pc = "fetching"
    /\ idx <= Len(fetchers)
    /\ \E out \in call_if_exists(fetchers[idx].func) :
          /\ FetchIteration(out)
          /\ pc' = IF Succeeds(out) THEN "returned" ELSE "fetching"
    /\ UNCHANGED <<gmsVars, sumVars, exc, fetchers>>

FetchExhausted ==
    /\ pc = "fetching"
    /\ idx > Len(fetchers)
    /\ exc' = AllFailed(errors)
    /\ pc' = "raised"
    /\ UNCHANGED <<gmsVars, sumVars, fetchers, idx, errors, fret, callLog>>

NextFallback == FetchStep \/ FetchExhausted

SpecFallback == InitFallback /\ [][NextFallback]_vars

\* ------------------------------------------------------------ get_market_state
\* The list of fetch_hs_a (lines 211-217) and of fetch_industry_board
\* (lines 226-228).
HsAFetchers ==
    <<Fetcher("eastmoney_spot_em", "stock_zh_a_spot_em"),
      Fetcher("sina_spot", "stock_zh_a_spot"),
      Fetcher("tencent_spot", "stock_zh_a_spot_tx"),
      Fetcher("sina_spot_2", "stock_zh_a_spot_sina")>>

IndustryBoardFetchers ==
    <<Fetcher("eastmoney_industry_board", "stock_board_industry_name_em")>>

\* The source name fetch_hs_a (line 222) and fetch_industry_board (line 230)
\* return beside the table.
fetch_hs_a_source == "auto_fallback"
fetch_industry_board_source == "eastmoney"

SupportedScopes == <<"hs_a", "industry_board", "sse_summary", "szse_summary">>

DefaultTopN == 20
DefaultRawRows == 5

\* The scopes and params get_market_state is called with.
Scopes == Range(SupportedScopes) \cup {"HS_A", ""}

ParamChoices ==
    [top_n : {Unset, IntV(1), StrV("2"), StrV("abc")},
     raw : {Unset, BoolV(TRUE)},
     raw_rows : {Unset, IntV(1), NoneV},
     date : {Unset, StrV(" 20200619 "), StrV(" ")}]

\* The dict that holds the chosen keys.
ParamDict(c) ==
    DictV([key \in {key \in {"top_n", "raw", "raw_rows", "date"} : c[key] # Unset}
             |-> c[key]])

ParamsArgs == {NoneV} \cup {ParamDict(c) : c \in ParamChoices}

\* meta of lines 247-253
InitialMeta(s, p, ver) ==
    [scope |-> s, asof |-> "now", source |-> "akshare", akshare_version |-> ver,
     params |-> p]

\* meta after lines 258-260 / 274-276
MetaWithSource(m, src, errs) ==
    IF errs # <<>>
    THEN m @@ [data_source |-> src, fallback_errors |-> errs]
    ELSE m @@ [data_source |-> src]

\* The report of lines 262-270, 278-286 with the given summary.
SummaryReport(m, df, summary, loc) ==
    LET out == [meta |-> m,
                shape |-> [rows |-> Len(df.rows), cols |-> Len(df.columns)],
                columns |-> df.columns,
                summary |-> summary]
    IN  IF loc.raw THEN out @@ [raw_head |-> ListV(DfHead(df.rows, loc.raw_rows))]
        ELSE out

\* The report of lines 291-301, 308-318.
DataReport(m, df, loc) ==
    IF IsFrame(df)
    THEN LET out == [meta |-> m,
                     shape |-> [rows |-> Len(df.rows), cols |-> Len(df.columns)],
                     columns |-> df.columns,
                     data |-> ListV(df.rows)]
         IN  IF loc.raw THEN out @@ [raw_head |-> ListV(DfHead(df.rows, loc.raw_rows))]
             ELSE out
    ELSE [meta |-> m, data |-> df]

\* The report of lines 327-329 for a caught exception.
FetchFailedReport(m, e) ==
    [meta |-> m, error |-> <<"fetch failed: ", e.type, ": ">> \o e.msg]

\* UnknownScopeReport with a slip: a supported scope is left out of the list.
UnknownScopeReport_short_list(m, s) ==
    [meta |-> m, error |-> <<"unknown scope: ", s>>,
     supported_scopes |-> <<"hs_a", "industry_board", "sse_summary">>]

\* The report of lines 321-325.
UnknownScopeReport(m, s) ==
    [meta |-> m, error |-> <<"unknown scope: ", s>>,
     supported_scopes |-> SupportedScopes]

\* The report of line 306.
DateRequiredReport(m) ==
    [meta |-> m,
     error |-> <<"szse_summary requires params['date'], e.g. '20200619'">>]

\* DateOf with a slip: the date is not stripped.
DateOf_no_strip(p) == PyStr(DictGet(p, "date", StrV("")))

\* The date of line 304.
DateOf(p) == Strip(PyStr(DictGet(p, "date", StrV(""))))

Init ==
    /\ pc = "idle"
    /\ scope = "" /\ params = NoneV /\ locals = Unset /\ meta = Unset
    /\ report = Unset /\ exc = Unset
    /\ fetchers = <<>> /\ idx = 1 /\ errors = <<>> /\ fret = Unset /\ callLog = <<>>
    /\ sdf = Unset /\ stop_n = 0 /\ sresult = Unset

\* get_market_state(s, p) from its entry to its first call of the provider
\* (lines 242-256, 272-273, 288-290, 303-307, 320-325): the conversions of
\* the parameters, which are outside the try, then the dispatch on scope.
GetMarketState ==
    /\ pc = "idle"
    /\ \E s \in Scopes, p \in ParamsArgs, ver \in {"1.12.0", "unknown"} :
          LET p0 == IF PyBool(p) THEN p ELSE DictV(<<>>)
              tn == PyInt(DictGet(p0, "top_n", IntV(DefaultTopN)))
              rw == PyBool(DictGet(p0, "raw", BoolV(FALSE)))
              rr == PyInt(DictGet(p0, "raw_rows", IntV(DefaultRawRows)))
              m == InitialMeta(s, p0, ver)
          IN  /\ scope' = s
              /\ params' = p
              /\ IF ~tn.ok \/ ~rr.ok
                 THEN /\ exc' = IF ~tn.ok THEN tn.e ELSE rr.e
                      /\ pc' = "raised"
                      /\ UNCHANGED <<locals, meta, report, fetchers>>
                 ELSE /\ locals' = [top_n |-> tn.v, raw |-> rw, raw_rows |-> rr.v]
                      /\ meta' = m
                      /\ exc' = exc
                      /\ IF s = "hs_a"
                         THEN pc' = "fallback" /\ fetchers' = HsAFetchers
                              /\ report' = report
                         ELSE IF s = "industry_board"
                         THEN pc' = "fallback" /\ fetchers' = IndustryBoardFetchers
                              /\ report' = report
                         ELSE IF s = "sse_summary"
                         THEN pc' = "direct" /\ UNCHANGED <<fetchers, report>>
                         ELSE IF s = "szse_summary"
                         THEN IF DateOf(p0) = ""
                              THEN pc' = "done" /\ report' = DateRequiredReport(m)
                                   /\ fetchers' = fetchers
                              ELSE pc' = "direct" /\ UNCHANGED <<fetchers, report>>
                         ELSE pc' = "done" /\ report' = UnknownScopeReport(m, s)
                              /\ fetchers' = fetchers
    /\ UNCHANGED <<idx, errors, fret, callLog, sumVars>>

\* One iteration of the loop of _fetch_with_fallback inside fetch_hs_a or
\* fetch_industry_board; when it returns, get_market_state runs on to its
\* return (lines 257-270, 273-286).
FallbackCall ==
    /\ pc = "fallback"
    /\ idx <= Len(fetchers)
    /\ \E out \in call_if_exists(fetchers[idx].func) :
          /\ FetchIteration(out)
          /\ IF Succeeds(out)
             THEN LET src == IF scope = "hs_a" THEN fetch_hs_a_source
                             ELSE fetch_industry_board_source
                      m == MetaWithSource(meta, src, errors)
                      summaries == IF scope = "hs_a"
                                   THEN summarize_spot(out.v, locals.top_n)
                                   ELSE summarize_industry_board(out.v, locals.top_n)
                  IN  /\ meta' = m
                      /\ \E sm \in summaries :
                            report' = SummaryReport(m, out.v, sm, locals)
                      /\ pc' = "done"
             ELSE UNCHANGED <<pc, meta, report>>
    /\ UNCHANGED <<scope, params, locals, exc, fetchers, sumVars>>

\* The loop of _fetch_with_fallback ran out of fetchers: RuntimeError (line
\* 74), which the except of get_market_state turns into a report (327-329).
FallbackExhausted ==
    /\ pc = "fallback"
    /\ idx > Len(fetchers)
    /\ report' = FetchFailedReport(meta, AllFailed(errors))
    /\ pc' = "done"
    /\ UNCHANGED <<scope, params, locals, meta, exc, fetchers, idx, errors, fret,
                   callLog, sumVars>>

\* The single call of sse_summary and szse_summary (lines 290-301, 307-318)
\* and the return that follows it.
DirectCall ==
    /\ pc = "direct"
    /\ LET func == IF scope = "sse_summary" THEN "stock_sse_summary"
                   ELSE "stock_szse_summary"
       IN  \E out \in call_if_exists(func) :
              /\ callLog' = Append(callLog, [pos |-> 1, name |-> func, func |-> func,
                                             out |-> out])
              /\ report' = IF out.k = "raise" THEN FetchFailedReport(meta, out.e)
                           ELSE DataReport(meta, out.v, locals)
    /\ pc' = "done"
    /\ UNCHANGED <<scope, params, locals, meta, exc, fetchers, idx, errors, fret,
                   sumVars>>

Next == GetMarketState \/ FallbackCall \/ FallbackExhausted \/ DirectCall

Spec == Init /\ [][Next]_vars

\* ============================================================ claims
\* What the claims read off the state, stated apart from the operators above.

\* The logged call c produced a non-empty table.
ProducedTable(c) ==
    c.out.k = "return" /\ c.out.v.k = "DataFrame" /\ Len(c.out.v.rows) > 0

\* The diagnostic line the logged call c stands for when it failed.
ClaimErrorLine(c) ==
    IF c.out.k = "raise"
    THEN <<"[", c.name, "] ", c.out.e.type, ": ">> \o c.out.e.msg
    ELSE <<"[", c.name, "] ", "Empty dataframe">>

\* The diagnostic lines of the logged calls from position i on, one per
\* line.
RECURSIVE ClaimErrorLinesFrom(_)
ClaimErrorLinesFrom(i) ==
    IF i > Len(callLog) THEN <<>>
    ELSE ClaimErrorLine(callLog[i])
         \o (IF i < Len(callLog) THEN <<"\n">> ELSE <<>>)
         \o ClaimErrorLinesFrom(i + 1)

AllCallsFailed == callLog # <<>> /\ \A i \in DOMAIN callLog : ~ProducedTable(callLog[i])

LastCall == callLog[Len(callLog)]

Terminated == pc \in {"done", "raised"}

FallbackScope == scope \in {"hs_a", "industry_board"}

\* int() accepts the value.
ClaimIntLike(v) ==
    v.k \in {"int", "bool"} \/ (v.k = "str" /\ v.s \in {"2", "5", "7", "10"})

\* params is missing or a dict whose top_n and raw_rows, when present, int()
\* accepts.
ClaimParamsConvertible ==
    params.k = "dict" =>
        /\ "top_n" \in DOMAIN params.d => ClaimIntLike(params.d.top_n)
        /\ "raw_rows" \in DOMAIN params.d => ClaimIntLike(params.d.raw_rows)

\* params holds a date that is not blank.
ClaimDateGiven ==
    /\ params.k = "dict"
    /\ "date" \in DOMAIN params.d
    /\ params.d.date.s \notin {"", " "}

\* ------------------------------------------------------------ C1
\* C1: _fetch_with_fallback calls the fetchers strictly in list order, each
\* at most once, and stops at the first one that returns a non-empty table:
\* the k-th call is the call of the k-th fetcher, no call follows a call that
\* produced a non-empty table, the table returned is the one the last call
\* produced, and RuntimeError is raised only after every fetcher was called
\* and failed.
C1_FallbackOrder ==
    /\ Len(callLog) <= Len(fetchers)
    /\ \A i \in DOMAIN callLog :
          /\ callLog[i].pos = i
          /\ callLog[i].name = fetchers[i].name
          /\ callLog[i].func = fetchers[i].func
          /\ i < Len(callLog) => ~ProducedTable(callLog[i])
    /\ pc = "fetching" => \A i \in DOMAIN callLog : ~ProducedTable(callLog[i])
    /\ pc = "returned" =>
          /\ callLog # <<>>
          /\ ProducedTable(LastCall)
          /\ fret.df = LastCall.out.v
    /\ pc = "raised" =>
          /\ Len(callLog) = Len(fetchers)
          /\ \A i \in DOMAIN callLog : ~ProducedTable(callLog[i])

\* C1 witness: the second of three fetchers succeeded after the first failed.
C1_Witness ==
    /\ pc = "returned"
    /\ Len(fetchers) = 3
    /\ Len(callLog) = 2
    /\ callLog[1].out.k = "raise"
    /\ fret.df = FrameOdd

\* ------------------------------------------------------------ C2
\* C2 as stated: every invocation of get_market_state issues exactly one call
\* to the data provider.
C2_ExactlyOneCall == Terminated => Len(callLog) = 1

\* C2 as amended: an invocation issues no call when the conversion of the
\* parameters raises, when the scope is unknown and when szse_summary has no
\* date; exactly one call for industry_board, sse_summary and szse_summary
\* with a date; and for hs_a one call per source of the chain up to and
\* including the first that succeeds: between one and four, four when all
\* fail.
C2_CallCount ==
    Terminated =>
        IF pc = "raised" THEN callLog = <<>>
        ELSE IF scope = "hs_a"
        THEN /\ Len(callLog) \in 1..4
             /\ \A i \in DOMAIN callLog : i < Len(callLog) => ~ProducedTable(callLog[i])
             /\ ~ProducedTable(LastCall) => Len(callLog) = 4
        ELSE IF scope \in {"industry_board", "sse_summary"} THEN Len(callLog) = 1
        ELSE IF scope = "szse_summary"
        THEN Len(callLog) = (IF ClaimDateGiven THEN 1 ELSE 0)
        ELSE callLog = <<>>

\* C2 witness: an hs_a report obtained from the third source.
C2_Witness ==
    /\ pc = "done"
    /\ scope = "hs_a"
    /\ Len(callLog) = 3
    /\ "summary" \in DOMAIN report

\* ------------------------------------------------------------ C3
\* C3: for scope hs_a, whenever a report with a summary is returned, the
\* data_source field of its meta names the source of the chain that returned
\* the table used in the report.
C3_DataSourceNamesSource ==
    (pc = "done" /\ scope = "hs_a" /\ "summary" \in DOMAIN report) =>
        report.meta.data_source = LastCall.name

\* ------------------------------------------------------------ C4
\* C4: for hs_a and industry_board, when some source succeeds, meta contains
\* fallback_errors if and only if a source earlier in the chain failed, and
\* then it holds exactly one entry per source tried before the successful
\* one, in chain order, each "[name] Type: message" for an exception and
\* "[name] Empty dataframe" for an empty or non-table result.
C4_FallbackErrors ==
    (pc = "done" /\ FallbackScope /\ callLog # <<>> /\ ProducedTable(LastCall)) =>
        LET n == Len(callLog)
            chain == IF scope = "hs_a" THEN HsAFetchers ELSE IndustryBoardFetchers
        IN  /\ "fallback_errors" \in DOMAIN report.meta <=> n > 1
            /\ n > 1 =>
                  /\ Len(report.meta.fallback_errors) = n - 1
                  /\ \A i \in 1..(n - 1) :
                        /\ callLog[i].name = chain[i].name
                        /\ report.meta.fallback_errors[i] = ClaimErrorLine(callLog[i])

\* C4 witness: the third source succeeded after one raised and one returned
\* nothing usable.
C4_Witness ==
    /\ pc = "done"
    /\ scope = "hs_a"
    /\ Len(callLog) = 3
    /\ callLog[1].out.k = "raise"
    /\ callLog[2].out.k = "return"
    /\ ProducedTable(LastCall)
    /\ "fallback_errors" \in DOMAIN report.meta

C6_UnknownScopeAlwaysReported ==
    Terminated =>
        IF scope \notin {"hs_a", "industry_board", "sse_summary", "szse_summary"}
        THEN /\ callLog = <<>>
             /\ pc = "done"
             /\ DOMAIN report = {"meta", "error", "supported_scopes"}
             /\ report.error = <<"unknown scope: ", scope>>
             /\ report.supported_scopes =
                   <<"hs_a", "industry_board", "sse_summary", "szse_summary">>
        ELSE pc = "done" =>
                /\ "supported_scopes" \notin DOMAIN report
                /\ "error" \in DOMAIN report => report.error[1] # "unknown scope: "

\* C6 as amended: the same, for an invocation whose top_n and raw_rows int()
\* accepts; for an unknown scope no data-source call is made in any case.
C6_UnknownScope ==
    Terminated =>
        IF scope \notin {"hs_a", "industry_board", "sse_summary", "szse_summary"}
        THEN /\ callLog = <<>>
             /\ ClaimParamsConvertible =>
                   /\ pc = "done"
                   /\ DOMAIN report = {"meta", "error", "supported_scopes"}
                   /\ report.error = <<"unknown scope: ", scope>>
                   /\ report.supported_scopes =
                         <<"hs_a", "industry_board", "sse_summary", "szse_summary">>
        ELSE pc = "done" =>
                /\ "supported_scopes" \notin DOMAIN report
                /\ "error" \in DOMAIN report => report.error[1] # "unknown scope: "

\* C6 witness: a scope that differs from a supported one by case only.
C6_Witness ==
    /\ pc = "done"
    /\ scope = "HS_A"
    /\ "supported_scopes" \in DOMAIN report

\* ------------------------------------------------------------ C10
\* C10 as stated: get_market_state never propagates an exception: for every
\* scope and params it returns a report whose meta holds the requested scope.
C10_NeverPropagates ==
    Terminated => (pc = "done" /\ report.meta.scope = scope)

\* C10 as amended: get_market_state propagates an exception exactly when
\* int() rejects top_n or raw_rows (ValueError or TypeError, raised before
\* meta is built and before any data-source call); in every other case it
\* returns a report whose meta holds the requested scope, with an unknown
\* scope, a missing date, a raising call and an exhausted chain reported in
\* an error field.
C10_PropagatesOnlyConversion ==
    Terminated =>
        /\ pc = "raised" <=> ~ClaimParamsConvertible
        /\ pc = "raised" =>
              /\ exc.type \in {"ValueError", "TypeError"}
              /\ callLog = <<>>
              /\ report = Unset
        /\ pc = "done" =>
              /\ report.meta.scope = scope
              /\ ( \/ scope \notin {"hs_a", "industry_board", "sse_summary", "szse_summary"}
                   \/ (scope = "szse_summary" /\ ~ClaimDateGiven)
                   \/ (callLog # <<>> /\ LastCall.out.k = "raise")
                   \/ (FallbackScope /\ AllCallsFailed) )
                 => "error" \in DOMAIN report

\* C10 witness: a non-numeric top_n left get_market_state as a ValueError.
C10_Witness ==
    /\ pc = "raised"
    /\ scope = "hs_a"
    /\ exc.type = "ValueError"
    /\ params.d.top_n = StrV("abc")

\* ------------------------------------------------------------ C7, C8, C9: _summarize_spot
\* The cell is a number or a string that spells one.
ClaimNumeric(cell) ==
    cell.k = "float" \/ (cell.k = "str" /\ cell.s \in {"2", "5", "7", "10"})

\* The number, in hundredths, of a numeric cell.
ClaimValue(cell) ==
    IF cell.k = "float" THEN cell.x100
    ELSE CASE cell.s = "2" -> 200 [] cell.s = "5" -> 500
           [] cell.s = "7" -> 700 [] cell.s = "10" -> 1000

\* The columns of the table among the candidates.
ClaimColumnsAmong(candidates) == Range(sdf.columns) \cap Range(candidates)

Summarized == pc = "summarized"

SummaryIsError == "error" \in DOMAIN sresult

\* The rows of the table whose cell in the table's column among the
\* candidates is numeric and satisfies the comparison with 0.
ClaimRowsWhere(candidates, op) ==
    LET col == CHOOSE c \in ClaimColumnsAmong(candidates) : TRUE
    IN  {i \in 1..Len(sdf.rows) :
            /\ ClaimNumeric(sdf.rows[i][col])
            /\ CASE op = ">" -> ClaimValue(sdf.rows[i][col]) > 0
                 [] op = "<" -> ClaimValue(sdf.rows[i][col]) < 0
                 [] op = "==" -> ClaimValue(sdf.rows[i][col]) = 0
                 [] op = "any" -> TRUE}

\* C7: in every summary _summarize_spot produces, advance, decline and flat
\* count the rows whose percent-change is numeric and > 0, < 0 and = 0, total
\* is the number of rows, and advance + decline + flat + (rows whose
\* percent-change is missing or not numeric) = total; so the three add up to
\* at most total, and to total exactly when every row is numeric.
C7_BreadthPartition ==
    (Summarized /\ ~SummaryIsError) =>
        LET b == sresult.breadth
            numeric == ClaimRowsWhere(PctCandidates, "any")
            missing == (1..Len(sdf.rows)) \ numeric
        IN  /\ b.advance = Cardinality(ClaimRowsWhere(PctCandidates, ">"))
            /\ b.decline = Cardinality(ClaimRowsWhere(PctCandidates, "<"))
            /\ b.flat = Cardinality(ClaimRowsWhere(PctCandidates, "=="))
            /\ b.total = Len(sdf.rows)
            /\ b.advance + b.decline + b.flat + Cardinality(missing) = b.total
            /\ b.advance + b.decline + b.flat <= b.total
            /\ b.advance + b.decline + b.flat = b.total <=> missing = {}

\* C7 witness: a snapshot with an advancing row and one whose percent-change
\* is not numeric.
C7_Witness ==
    /\ Summarized
    /\ ~SummaryIsError
    /\ sresult.breadth.advance = 1
    /\ sresult.breadth.decline + sresult.breadth.flat = 0
    /\ sresult.breadth.total = 2

\* C8: _pick_col returns the first name of the candidate list, in list
\* order, that is a column of the table, and None when none is.
\* _summarize_spot returns the error report with all column names exactly
\* when no code, no name or no percent-change column is found; without a
\* turnover column turnover_quantiles and top_turnover are None and breadth
\* is still computed, and a missing price column causes no error.
C8_PickColAndKeyColumns ==
    /\ \A cand \in {CodeCandidates, NameCandidates, PctCandidates,
                    PriceCandidates, AmountCandidates} :
          LET r == pick_col(sdf, cand)
          IN  IF Range(cand) \cap Range(sdf.columns) = {} THEN r = NoneV
              ELSE /\ r.k = "str"
                   /\ \E i \in DOMAIN cand :
                         /\ cand[i] = r.s
                         /\ cand[i] \in Range(sdf.columns)
                         /\ \A j \in 1..(i - 1) : cand[j] \notin Range(sdf.columns)
    /\ Summarized =>
          /\ SummaryIsError <=>
                \/ ClaimColumnsAmong(CodeCandidates) = {}
                \/ ClaimColumnsAmong(NameCandidates) = {}
                \/ ClaimColumnsAmong(PctCandidates) = {}
          /\ SummaryIsError =>
                /\ DOMAIN sresult = {"error", "available_cols"}
                /\ sresult.error = "spot missing key columns"
                /\ sresult.available_cols = sdf.columns
          /\ (~SummaryIsError /\ ClaimColumnsAmong(AmountCandidates) = {}) =>
                /\ sresult.turnover_quantiles = NoneV
                /\ sresult.top_turnover = NoneV
                /\ sresult.breadth.total = Len(sdf.rows)

\* C8 witness: a table that has two of the code candidates and two of the
\* name candidates, in an order other than the candidates', and no price
\* column, was summarized.
C8_Witness ==
    /\ Summarized
    /\ ~SummaryIsError
    /\ {"code", "symbol"} \subseteq Range(sdf.columns)
    /\ ClaimColumnsAmong(PriceCandidates) = {}
    /\ Len(sdf.rows) = 1

====
